---- MODULE Spec2Model ----
(***************************************************************************)
(* hydra-program: the two command-line tools.                              *)
(*                                                                         *)
(*   hpinit (src/hydra_program/cli/hpinit.py) mirrors the packaged         *)
(*   config_templates tree into ./config, skipping files that exist        *)
(*   unless --force is given.                                              *)
(*                                                                         *)
(*   hprun (src/hydra_program/cli/hprun.py) discovers ./config or          *)
(*   ./configs, hands it to hydra.main, and the entry function resolves,   *)
(*   instantiates and runs the program object.                             *)
(*                                                                         *)
(* Paths are sequences of names.  The working directory is a tree `fs`     *)
(* (a function from the paths that exist to their entries); the packaged   *)
(* template tree is `tpl`, with paths relative to the template root.       *)
(***************************************************************************)
EXTENDS Integers, Sequences, FiniteSets, TLC

VARIABLES
    \* ---- hpinit: the environment
    tpl_root,       \* what importlib.resources finds for config_templates
    tpl,            \* the template tree below the root: path -> entry
    fs,             \* the tree below the current working directory
    \* ---- hpinit: the process
    pc,             \* position of the hpinit process
    force,          \* args.force
    stack,          \* call stack of copy_recursive: frames, innermost last
    copied_files,   \* hpinit.py:52
    skipped_files,  \* hpinit.py:53
    stdout,         \* lines printed to the output stream
    stderr,         \* lines printed to the error stream
    exit_code,      \* exit status of the last finished process, -1 if none
    \* ---- hpinit: history of the run, read only by the properties
    fs0,            \* fs when the current process started
    pre_exists,     \* relative paths whose destination existed when visited
    outcome,        \* how the last process ended
    runs,           \* number of hpinit processes started
    edits,          \* number of edits the user made to the working directory
    prev,           \* force/exit_code of the previous process, and whether
                    \* the user left the tree alone since it ended
    \* ---- hprun
    rpc,            \* position of the hprun process
    cwd,            \* os.getcwd()
    cwd_config,     \* what ./config is: "none", "file" or "dir"
    cwd_configs,    \* what ./configs is
    config_path,    \* the value _get_default_config_path returned
    cfg,            \* the configuration tree handed to the entry function
    program,        \* the instantiated object
    trace,          \* the steps of the hprun process, in order
    rexit           \* exit status of the hprun process, -1 while running

hpinit_vars == <<tpl_root, tpl, fs, pc, force, stack, copied_files,
                 skipped_files, stdout, stderr, exit_code, fs0, pre_exists,
                 outcome, runs, edits, prev>>
hprun_vars == <<rpc, cwd, cwd_config, cwd_configs, config_path, cfg, program,
                trace, rexit>>
vars == <<hpinit_vars, hprun_vars>>

\* ------------------------------------------------------------- bounds
\* at most this many files in the template tree
MaxFiles == 2
\* at most this many hpinit processes in a row
MaxRuns == 2
\* at most this many edits by the user outside the processes
MaxEdits == 1

\* ------------------------------------------------------------- paths
Last(p) == p[Len(p)]
Parent(p) == SubSeq(p, 1, Len(p) - 1)
IsPrefix(p, q) == Len(p) <= Len(q) /\ SubSeq(q, 1, Len(p)) = p
Range(s) == {s[i] : i \in 1..Len(s)}

\* Path.relative_to: the path below `base`
RelativeTo(p, base) == SubSeq(p, Len(base) + 1, Len(p))

\* ------------------------------------------------------------- trees
File(data, mtime) == [kind |-> "file", data |-> data, mtime |-> mtime]
Dir == [kind |-> "dir", data |-> <<>>, mtime |-> "none"]
\* neither a regular file nor a directory (a broken link, a socket)
Other == [kind |-> "other", data |-> <<>>, mtime |-> "none"]

Exists(t, p) == p \in DOMAIN t
IsFile(t, p) == Exists(t, p) /\ t[p].kind = "file"
IsDir(t, p) == Exists(t, p) /\ t[p].kind = "dir"

\* the names Path.iterdir yields for directory d
IterDir(t, d) ==
    {Last(q) : q \in {r \in DOMAIN t : Len(r) = Len(d) + 1 /\ Parent(r) = d}}

Put(t, p, e) == [q \in (DOMAIN t) \cup {p} |-> IF q = p THEN e ELSE t[q]]
Remove(t, p) == [q \in {r \in DOMAIN t : ~IsPrefix(p, r)} |-> t[q]]

\* the regular files of the template tree
SrcFiles == {p \in DOMAIN tpl : tpl[p].kind = "file"}

\* the working directory itself always is a directory
IsDirAt(t, p) == p = <<>> \/ IsDir(t, p)

\* Path.mkdir(parents=..., exist_ok=True): the tree afterwards, or the error
RECURSIVE Mkdir(_, _, _)
Mkdir(t, p, parents) ==
    IF IsDirAt(t, p) THEN [err |-> "none", fs |-> t]
    ELSE IF Exists(t, p) THEN [err |-> "FileExistsError", fs |-> t]
    ELSE IF IsDirAt(t, Parent(p)) THEN [err |-> "none", fs |-> Put(t, p, Dir)]
    ELSE IF Exists(t, Parent(p)) THEN [err |-> "NotADirectoryError", fs |-> t]
    ELSE IF ~parents THEN [err |-> "FileNotFoundError", fs |-> t]
    ELSE LET up == Mkdir(t, Parent(p), TRUE)
         IN  IF up.err # "none" THEN up
             ELSE [err |-> "none", fs |-> Put(up.fs, p, Dir)]

\* shutil.copy2(src, dst): a dst that is a directory receives the file under
\* the source's base name; the data and the metadata are both copied
Copy2(t, entry, name, dst) ==
    LET target == IF IsDir(t, dst) THEN dst \o <<name>> ELSE dst
    IN  IF IsDir(t, target) THEN [err |-> "IsADirectoryError", fs |-> t]
        ELSE IF ~IsDirAt(t, Parent(target))
             THEN [err |-> "FileNotFoundError", fs |-> t]
        ELSE [err |-> "none",
              fs |-> Put(t, target, File(entry.data, entry.mtime))]

\* ------------------------------------------------------------- hpinit: environment
\* the files a packaged template tree may hold
FileUniverse ==
    {<<"x.yaml">>, <<"a", "y.yaml">>, <<"a", "b", "c.yaml">>}
ExtraDir == <<"empty">>
ExtraOther == <<"link">>

ProperPrefixes(p) == {SubSeq(p, 1, n) : n \in 1..(Len(p) - 1)}

\* the template tree holding the files F and the extra entry
TemplateTree(F, extra) ==
    LET dirs == UNION {ProperPrefixes(p) : p \in F}
        more == IF extra = "none" THEN {}
                ELSE IF extra = "dir" THEN {ExtraDir} ELSE {ExtraOther}
    IN  [p \in F \cup dirs \cup more |->
            IF p \in F THEN File(<<"tpl">> \o p, "packaged")
            ELSE IF p \in dirs \/ extra = "dir" THEN Dir
            ELSE Other]

\* dest_path = Path.cwd() / "config", relative to the working directory
dest_path == <<"config">>

\* what a user writes into the working directory
UserFile == File(<<"user">>, "edited")

\* the paths a user may touch
EditPaths ==
    {dest_path} \cup {dest_path \o q : q \in DOMAIN tpl}
    \cup {dest_path \o q \o <<Last(q)>> : q \in SrcFiles}

\* every ancestor of p is a directory or can be created
CanReach(t, p) ==
    \A n \in 1..(Len(p) - 1) :
        ~Exists(t, SubSeq(p, 1, n)) \/ IsDir(t, SubSeq(p, 1, n))

UserWrite(p) ==
    /\ ~IsDir(fs, p) /\ CanReach(fs, p)
    /\ fs' = Put(Mkdir(fs, Parent(p), TRUE).fs, p, UserFile)

UserMkdir(p) ==
    /\ ~Exists(fs, p) /\ CanReach(fs, p)
    /\ fs' = Mkdir(fs, p, TRUE).fs

UserDelete(p) ==
    /\ Exists(fs, p)
    /\ fs' = Remove(fs, p)

\* the user changes the working directory while no hpinit process runs;
\* nothing of a finished process is left but the tree
UserEdit ==
    /\ pc \in {"idle", "done"}
    /\ edits < MaxEdits
    /\ \E p \in EditPaths : UserWrite(p) \/ UserMkdir(p) \/ UserDelete(p)
    /\ edits' = edits + 1
    /\ pc' = "idle"
    /\ force' = FALSE
    /\ copied_files' = <<>>
    /\ skipped_files' = <<>>
    /\ stdout' = <<>>
    /\ stderr' = <<>>
    /\ exit_code' = -1
    /\ fs0' = <<>>
    /\ pre_exists' = {}
    /\ outcome' = [raised |-> "none", in_try |-> FALSE]
    /\ prev' = [force |-> FALSE, exit_code |-> -1, clean |-> FALSE]
    /\ UNCHANGED <<tpl_root, tpl, stack, runs>>
    /\ UNCHANGED hprun_vars

\* ------------------------------------------------------------- hpinit: the process
Line(tag, path, n) == [tag |-> tag, path |-> path, n |-> n]
Msg(tag) == Line(tag, <<>>, 0)

\* no process ran before, or the user changed the tree since it ended
NoPrev == [force |-> FALSE, exit_code |-> -1, clean |-> FALSE]
NoOutcome == [raised |-> "none", in_try |-> FALSE]

\* (fault) the handler of the try block reports the error and returns
HandlerSwallows(type, in_try) ==
    IF in_try /\ type # "KeyboardInterrupt"
    THEN [err |-> Msg("Error copying configuration templates"), code |-> 0]
    ELSE [err |-> Msg("Error"), code |-> 1]

\* Where an exception raised in copy_config_templates ends: the handler of
\* its try block catches every Exception raised inside it and exits 1
\* (KeyboardInterrupt is no Exception); main catches FileNotFoundError and
\* KeyboardInterrupt; anything else leaves main and the interpreter prints
\* the traceback and exits with status 1.
Handler(type, in_try) ==
    IF in_try /\ type # "KeyboardInterrupt"
    THEN [err |-> Msg("Error copying configuration templates"), code |-> 1]
    ELSE IF type = "FileNotFoundError"
    THEN [err |-> Msg("Error"), code |-> 1]
    ELSE IF type = "KeyboardInterrupt"
    THEN [err |-> Msg("Operation cancelled by user"), code |-> 1]
    ELSE [err |-> Msg("Traceback"), code |-> 1]

\* an exception of this type is raised, inside the try block or not
Raise(type, in_try) ==
    /\ stderr' = Append(stderr, Handler(type, in_try).err)
    /\ exit_code' = Handler(type, in_try).code
    /\ outcome' = [raised |-> type, in_try |-> in_try]
    /\ pc' = "done"
    /\ stack' = <<>>

\* main: parse the arguments and call copy_config_templates
Main ==
    /\ pc \in {"idle", "done"}
    /\ runs < MaxRuns
    /\ \E f \in BOOLEAN : force' = f
    /\ runs' = runs + 1
    /\ prev' = IF pc = "done"
               THEN [force |-> force, exit_code |-> exit_code, clean |-> TRUE]
               ELSE NoPrev
    /\ pc' = "get_path"
    /\ stack' = <<>>
    /\ copied_files' = <<>>
    /\ skipped_files' = <<>>
    /\ stdout' = <<>>
    /\ stderr' = <<>>
    /\ exit_code' = -1
    /\ outcome' = NoOutcome
    /\ fs0' = fs
    /\ pre_exists' = {}
    /\ UNCHANGED <<tpl_root, tpl, fs, edits>>
    /\ UNCHANGED hprun_vars

\* (fault) the directory is not checked to exist
LocatedUnchecked(root) == root # "unlocatable"
\* importlib.resources located the directory and it exists
Located(root) == root \notin {"unlocatable", "absent"}

\* get_config_templates_path
GetConfigTemplatesPath ==
    /\ pc = "get_path"
    /\ IF ~Located(tpl_root)
       THEN /\ Raise("FileNotFoundError", FALSE)
            /\ UNCHANGED stdout
       ELSE /\ pc' = "mkdir"
            /\ UNCHANGED <<stack, stdout, stderr, exit_code, outcome>>
    /\ UNCHANGED <<tpl_root, tpl, fs, force, copied_files, skipped_files, fs0,
                   pre_exists, runs, edits, prev>>
    /\ UNCHANGED hprun_vars

\* copy_config_templates up to its try block: dest_path.mkdir(exist_ok=True)
MkdirDest ==
    /\ pc = "mkdir"
    /\ stdout' = Append(stdout, Msg("Copying configuration templates"))
    /\ LET r == Mkdir(fs, dest_path, FALSE)
       IN  IF r.err # "none"
           THEN /\ Raise(r.err, FALSE)
                /\ UNCHANGED fs
           ELSE /\ fs' = r.fs
                /\ pc' = "call"
                /\ UNCHANGED <<stack, stderr, exit_code, outcome>>
    /\ copied_files' = <<>>
    /\ skipped_files' = <<>>
    /\ UNCHANGED <<tpl_root, tpl, force, fs0, pre_exists, runs, edits, prev>>
    /\ UNCHANGED hprun_vars

Frame(src_dir, dst_dir) ==
    [src_dir |-> src_dir, dst_dir |-> dst_dir, todo |-> IterDir(tpl, src_dir)]

\* the try block calls copy_recursive(source_path, dest_path)
CallCopyRecursive ==
    /\ pc = "call"
    /\ IF tpl_root # "dir"
       THEN Raise(IF tpl_root = "file" THEN "NotADirectoryError"
                  ELSE "FileNotFoundError", TRUE)
       ELSE /\ stack' = <<Frame(<<>>, dest_path)>>
            /\ pc' = "copy"
            /\ UNCHANGED <<stderr, exit_code, outcome>>
    /\ UNCHANGED <<tpl_root, tpl, fs, force, copied_files, skipped_files,
                   stdout, fs0, pre_exists, runs, edits, prev>>
    /\ UNCHANGED hprun_vars

Top == stack[Len(stack)]
\* (fault) every item lands directly below ./config
DstItemFlat(dst_dir, name) == dest_path \o <<name>>
\* dst_item = dst_dir / item.name
DstItem(dst_dir, name) == dst_dir \o <<name>>
\* (fault) the test on force is inverted
ShouldSkipInverted(t, dst_item, f) == Exists(t, dst_item) /\ f
\* (fault) force is not consulted
ShouldSkipIgnoringForce(t, dst_item, f) == Exists(t, dst_item)
\* (fault) only a regular file at the destination counts as existing
ShouldSkipFilesOnly(t, dst_item, f) == IsFile(t, dst_item) /\ ~f
\* `dst_item.exists() and not force`
ShouldSkip(t, dst_item, f) == Exists(t, dst_item) /\ ~f
\* the innermost loop has moved past `name`
Advance(name) ==
    [stack EXCEPT ![Len(stack)].todo = @ \ {name}]
Visited(dst_item) ==
    IF Exists(fs, dst_item)
    THEN pre_exists \cup {RelativeTo(dst_item, dest_path)}
    ELSE pre_exists

\* a file whose destination exists, without force: recorded as skipped
SkipFile ==
    /\ pc = "copy"
    /\ \E name \in Top.todo :
        LET src_item == Top.src_dir \o <<name>>
            dst_item == DstItem(Top.dst_dir, name)
            rel == RelativeTo(dst_item, dest_path)
        IN  /\ tpl[src_item].kind = "file"
            /\ ShouldSkip(fs, dst_item, force)
            /\ skipped_files' = Append(skipped_files, rel)
            /\ stdout' = Append(stdout, Line("Skipping existing file", rel, 0))
            /\ pre_exists' = Visited(dst_item)
            /\ stack' = Advance(name)
    /\ UNCHANGED <<tpl_root, tpl, fs, pc, force, copied_files, stderr,
                   exit_code, fs0, outcome, runs, edits, prev>>
    /\ UNCHANGED hprun_vars

\* the status word of the progress line, computed after the copy
Status(t, dst_item) ==
    IF Exists(t, dst_item) /\ force THEN "Overwriting" ELSE "Copying"

\* a file whose destination is absent, or any file with force: copied
CopyFile ==
    /\ pc = "copy"
    /\ \E name \in Top.todo :
        LET src_item == Top.src_dir \o <<name>>
            dst_item == DstItem(Top.dst_dir, name)
            rel == RelativeTo(dst_item, dest_path)
            made == Mkdir(fs, Parent(dst_item), TRUE)
            done == Copy2(made.fs, tpl[src_item], name, dst_item)
        IN  /\ tpl[src_item].kind = "file"
            /\ ~ShouldSkip(fs, dst_item, force)
            /\ pre_exists' = Visited(dst_item)
            /\ IF made.err # "none"
               THEN /\ Raise(made.err, TRUE)
                    /\ UNCHANGED <<fs, copied_files, stdout>>
               ELSE IF done.err # "none"
               THEN /\ Raise(done.err, TRUE)
                    /\ fs' = made.fs
                    /\ UNCHANGED <<copied_files, stdout>>
               ELSE /\ fs' = done.fs
                    /\ copied_files' = Append(copied_files, rel)
                    /\ stdout' = Append(stdout,
                                        Line(Status(done.fs, dst_item), rel, 0))
                    /\ stack' = Advance(name)
                    /\ UNCHANGED <<pc, stderr, exit_code, outcome>>
    /\ UNCHANGED <<tpl_root, tpl, force, skipped_files, fs0, runs, edits, prev>>
    /\ UNCHANGED hprun_vars

\* shutil.copy2 fails for a reason of the environment (permissions, disk)
CopyFileFails ==
    /\ pc = "copy"
    /\ \E name \in Top.todo :
        LET src_item == Top.src_dir \o <<name>>
            dst_item == DstItem(Top.dst_dir, name)
            made == Mkdir(fs, Parent(dst_item), TRUE)
        IN  /\ tpl[src_item].kind = "file"
            /\ ~ShouldSkip(fs, dst_item, force)
            /\ made.err = "none"
            /\ pre_exists' = Visited(dst_item)
            /\ fs' = made.fs
            /\ Raise("PermissionError", TRUE)
    /\ UNCHANGED <<tpl_root, tpl, force, copied_files, skipped_files, stdout,
                   fs0, runs, edits, prev>>
    /\ UNCHANGED hprun_vars

\* a directory: dst_item.mkdir(exist_ok=True), then the recursive call
CopyDir ==
    /\ pc = "copy"
    /\ \E name \in Top.todo :
        LET src_item == Top.src_dir \o <<name>>
            dst_item == DstItem(Top.dst_dir, name)
            made == Mkdir(fs, dst_item, FALSE)
        IN  /\ tpl[src_item].kind = "dir"
            /\ IF made.err # "none"
               THEN /\ Raise(made.err, TRUE)
                    /\ UNCHANGED fs
               ELSE /\ fs' = made.fs
                    /\ stack' = Append(Advance(name), Frame(src_item, dst_item))
                    /\ UNCHANGED <<pc, stderr, exit_code, outcome>>
    /\ UNCHANGED <<tpl_root, tpl, force, copied_files, skipped_files, stdout,
                   fs0, pre_exists, runs, edits, prev>>
    /\ UNCHANGED hprun_vars

\* an entry that is neither a file nor a directory is passed over
PassOther ==
    /\ pc = "copy"
    /\ \E name \in Top.todo :
        /\ tpl[Top.src_dir \o <<name>>].kind \notin {"file", "dir"}
        /\ stack' = Advance(name)
    /\ UNCHANGED <<tpl_root, tpl, fs, pc, force, copied_files, skipped_files,
                   stdout, stderr, exit_code, fs0, pre_exists, outcome, runs,
                   edits, prev>>
    /\ UNCHANGED hprun_vars

\* a recursive call of copy_recursive returns
Return ==
    /\ pc = "copy"
    /\ Len(stack) > 1 /\ Top.todo = {}
    /\ stack' = SubSeq(stack, 1, Len(stack) - 1)
    /\ UNCHANGED <<tpl_root, tpl, fs, pc, force, copied_files, skipped_files,
                   stdout, stderr, exit_code, fs0, pre_exists, outcome, runs,
                   edits, prev>>
    /\ UNCHANGED hprun_vars

\* (fault) the summary is left out when there was nothing to copy
SummaryOnlyWithFiles(copied, skipped) ==
    IF copied = <<>> /\ skipped = <<>>
    THEN <<Msg("No files to copy")>>
    ELSE <<Msg("Summary"), Line("Copied", <<>>, Len(copied))>>
         \o (IF skipped # <<>>
             THEN <<Line("Skipped", <<>>, Len(skipped)), Msg("Use --force")>>
             ELSE <<>>)
         \o <<Msg("Configuration templates have been initialized")>>

\* the lines printed after copy_recursive returned
Summary(copied, skipped) ==
    <<Msg("Summary"), Line("Copied", <<>>, Len(copied))>>
    \o (IF skipped # <<>>
        THEN <<Line("Skipped", <<>>, Len(skipped)), Msg("Use --force")>>
        ELSE <<>>)
    \o (IF copied # <<>> \/ skipped # <<>>
        THEN <<Msg("Configuration templates have been initialized")>>
        ELSE <<Msg("No files to copy")>>)

\* the outermost call returned: print the summary, return to main, exit 0
PrintSummary ==
    /\ pc = "copy"
    /\ Len(stack) = 1 /\ Top.todo = {}
    /\ stdout' = stdout \o Summary(copied_files, skipped_files)
    /\ exit_code' = 0
    /\ pc' = "done"
    /\ stack' = <<>>
    /\ UNCHANGED <<tpl_root, tpl, fs, force, copied_files, skipped_files,
                   stderr, fs0, pre_exists, outcome, runs, edits, prev>>
    /\ UNCHANGED hprun_vars

\* the user presses Ctrl-C while copy_config_templates runs
KeyboardInterrupt ==
    /\ pc \in {"get_path", "mkdir", "call", "copy"}
    /\ Raise("KeyboardInterrupt", pc \in {"call", "copy"})
    /\ UNCHANGED <<tpl_root, tpl, fs, force, copied_files, skipped_files,
                   stdout, fs0, pre_exists, runs, edits, prev>>
    /\ UNCHANGED hprun_vars

\* the not-found sentinel of the discovery
None == [is_none |-> TRUE, path |-> <<>>]
NoCfg == [loads |-> FALSE, resolves |-> FALSE, instantiates |-> FALSE,
          runs |-> FALSE]

HprunIdle ==
    /\ rpc = "off" /\ cwd = <<>> /\ cwd_config = "none" /\ cwd_configs = "none"
    /\ config_path = None /\ cfg = NoCfg /\ program = "none"
    /\ trace = <<>> /\ rexit = -1

InitHpinit ==
    /\ tpl_root \in {"dir", "absent", "unlocatable", "file"}
    /\ \E F \in SUBSET FileUniverse, extra \in {"none", "dir", "other"} :
        /\ Cardinality(F) <= MaxFiles
        /\ tpl_root # "dir" => F = {} /\ extra = "none"
        /\ tpl = TemplateTree(F, extra)
    /\ fs = <<>>
    /\ pc = "idle"
    /\ force = FALSE
    /\ stack = <<>>
    /\ copied_files = <<>>
    /\ skipped_files = <<>>
    /\ stdout = <<>>
    /\ stderr = <<>>
    /\ exit_code = -1
    /\ fs0 = <<>>
    /\ pre_exists = {}
    /\ outcome = NoOutcome
    /\ runs = 0
    /\ edits = 0
    /\ prev = NoPrev
    /\ HprunIdle

NextHpinit ==
    \/ UserEdit
    \/ Main
    \/ GetConfigTemplatesPath
    \/ MkdirDest
    \/ CallCopyRecursive
    \/ SkipFile
    \/ CopyFile
    \/ CopyFileFails
    \/ CopyDir
    \/ PassOther
    \/ Return
    \/ PrintSummary
    \/ KeyboardInterrupt

SpecHpinit == InitHpinit /\ [][NextHpinit]_vars

\* ------------------------------------------------------------- hpinit: properties
\* the process has just ended
Exited == pc = "done"
\* ... and copy_recursive returned and the summary was printed
Completed == Exited /\ outcome.raised = "none"

\* the destination ./config is absent or an empty directory
DestEmpty(t) ==
    \A q \in DOMAIN t : IsPrefix(dest_path, q) => q = dest_path /\ IsDir(t, q)

\* every template file was copied, each exactly once
AllCopied ==
    /\ Range(copied_files) = SrcFiles
    /\ Len(copied_files) = Cardinality(SrcFiles)
    /\ skipped_files = <<>>

\* C1: a run with force=False against an empty or absent ./config copies
\* every file of the template tree to the same relative path below ./config,
\* skips none, and the copied-count of the summary is the number of files.
C1_FreshCopyIsComplete ==
    (Completed /\ ~force /\ DestEmpty(fs0)) =>
        /\ AllCopied
        /\ \A p \in SrcFiles :
            /\ Exists(fs, dest_path \o p)
            /\ fs[dest_path \o p] = tpl[p]
        /\ Line("Copied", <<>>, Cardinality(SrcFiles)) \in Range(stdout)

C1_Witness ==
    /\ Completed /\ ~force /\ DestEmpty(fs0)
    /\ SrcFiles = {<<"x.yaml">>, <<"a", "b", "c.yaml">>}
    /\ IsFile(fs, <<"config", "a", "b", "c.yaml">>)
    /\ Len(copied_files) = 2

\* C2: a second run with force=False right after a completed run with
\* force=False copies nothing, records every template file as skipped, and
\* leaves the destination tree as the first run left it.
C2_SecondRunSkipsAll ==
    (Completed /\ ~force /\ prev.clean /\ prev.exit_code = 0 /\ ~prev.force) =>
        /\ copied_files = <<>>
        /\ Range(skipped_files) = SrcFiles
        /\ Len(skipped_files) = Cardinality(SrcFiles)
        /\ fs = fs0

C2_Witness ==
    /\ Completed /\ ~force /\ prev.clean /\ prev.exit_code = 0 /\ ~prev.force
    /\ Len(skipped_files) = 2
    /\ \A p \in SrcFiles : fs[dest_path \o p] = tpl[p]

\* C3: a run with force=True after a prior run records every template file
\* as copied and none as skipped, and every destination file (a destination
\* path that was a file or absent) holds its template's content afterwards,
\* whatever it held before.
C3_ForceOverwritesAll ==
    (Completed /\ force /\ runs >= 2) =>
        /\ AllCopied
        /\ \A p \in SrcFiles :
            ~IsDir(fs0, dest_path \o p) =>
                /\ Exists(fs, dest_path \o p)
                /\ fs[dest_path \o p] = tpl[p]

C3_Witness ==
    /\ Completed /\ force /\ runs >= 2
    /\ \E p \in SrcFiles :
        /\ Exists(fs0, dest_path \o p)
        /\ fs0[dest_path \o p] = UserFile
        /\ fs[dest_path \o p] = tpl[p]
    /\ Cardinality(SrcFiles) = 2

\* C4: a completed run with force=False, from any destination, records every
\* template file exactly once: as skipped, its destination left as it was,
\* when the destination existed when the file was visited, as copied
\* otherwise; copied and skipped are disjoint and cover the template files.
C4_SkipOrCopyPartition ==
    (Completed /\ ~force) =>
        /\ Range(copied_files) \cap Range(skipped_files) = {}
        /\ Range(copied_files) \cup Range(skipped_files) = SrcFiles
        /\ Len(copied_files) + Len(skipped_files) = Cardinality(SrcFiles)
        /\ \A p \in SrcFiles :
            /\ p \in Range(skipped_files) <=> p \in pre_exists
            /\ p \in Range(skipped_files) =>
                /\ Exists(fs0, dest_path \o p)
                /\ Exists(fs, dest_path \o p)
                /\ fs[dest_path \o p] = fs0[dest_path \o p]
            /\ p \in Range(copied_files) => fs[dest_path \o p] = tpl[p]

C4_Witness ==
    /\ Completed /\ ~force
    /\ \E p, q \in SrcFiles :
        /\ p \in Range(skipped_files) /\ fs[dest_path \o p] = UserFile
        /\ q \in Range(copied_files) /\ ~Exists(fs0, dest_path \o q)

\* C5: a copied file is reported as an overwrite exactly when its
\* destination existed before the copy and force is true; a file copied to
\* a path that did not exist is reported as a fresh copy, also with force.
C5_OverwriteReportedOnlyIfExisted ==
    \A i \in 1..Len(stdout) :
        stdout[i].tag \in {"Overwriting", "Copying"} =>
            (stdout[i].tag = "Overwriting"
                <=> (stdout[i].path \in pre_exists /\ force))

\* C6: exit status 0 whenever the copy completes (also when files were
\* skipped); 1 when the template root cannot be located, when the user
\* interrupts, and when an error is raised in the copy phase, which is
\* reported on the error stream and no summary is printed.
C6_ExitStatus ==
    Exited =>
        /\ outcome.raised = "none" => exit_code = 0
        /\ ~Located(tpl_root) => exit_code = 1
        /\ outcome.raised = "KeyboardInterrupt" => exit_code = 1
        /\ (outcome.in_try /\ outcome.raised \notin {"none", "KeyboardInterrupt"}) =>
            /\ exit_code = 1
            /\ stderr = <<Msg("Error copying configuration templates")>>
            /\ Msg("Summary") \notin Range(stdout)
        /\ exit_code \in {0, 1}

\* a template directory whose destination path is a regular file
C6_Witness ==
    /\ Exited /\ exit_code = 1
    /\ outcome = [raised |-> "FileExistsError", in_try |-> TRUE]
    /\ IsDir(tpl, <<"a">>) /\ IsFile(fs, <<"config", "a">>)
    /\ copied_files # <<>>

\* nothing is in t that was not in t0, but possibly an empty ./config
NothingNew(t, t0) ==
    \A q \in DOMAIN t :
        \/ Exists(t0, q) /\ t[q] = t0[q]
        \/ q = dest_path /\ IsDir(t, q) /\ IterDir(t, q) = {}

\* C7: with the template directory absent the initializer raises the
\* location-not-found failure, which main reports, the process exits with
\* status 1, and ./config holds nothing new but at most an empty directory.
C7_AbsentTemplatesCopyNothing ==
    (Exited /\ tpl_root = "absent" /\ outcome.raised # "KeyboardInterrupt") =>
        /\ outcome = [raised |-> "FileNotFoundError", in_try |-> FALSE]
        /\ stderr = <<Msg("Error")>>
        /\ exit_code = 1
        /\ copied_files = <<>>
        /\ NothingNew(fs, fs0)

C7_Witness ==
    /\ Exited /\ tpl_root = "absent" /\ exit_code = 1
    /\ outcome.raised = "FileNotFoundError"
    /\ fs = fs0 /\ IsFile(fs, <<"config">>)

\* C8 as stated: with no file in the template tree a completed run prints
\* the "nothing to copy" message and no summary with a copied-count.
C8_NoSummaryWhenNoFiles ==
    (Completed /\ SrcFiles = {}) =>
        /\ Msg("No files to copy") \in Range(stdout)
        /\ \A i \in 1..Len(stdout) : stdout[i].tag \notin {"Summary", "Copied"}

\* C8 amended: with no file in the template tree a completed run prints the
\* summary header and a copied-count of 0, and then the "nothing to copy"
\* message in place of the confirmation that the templates were initialized.
C8_NoFilesAfterSummary ==
    (Completed /\ SrcFiles = {}) =>
        stdout = <<Msg("Copying configuration templates"), Msg("Summary"),
                   Line("Copied", <<>>, 0), Msg("No files to copy")>>

C8_Witness ==
    /\ Completed /\ SrcFiles = {}
    /\ IsDir(tpl, ExtraDir) /\ IsDir(fs, dest_path \o ExtraDir)
    /\ stdout[Len(stdout)] = Msg("No files to copy")

\* ------------------------------------------------------------- hprun
HpinitIdle ==
    /\ tpl_root = "dir" /\ tpl = <<>> /\ fs = <<>>
    /\ pc = "off" /\ force = FALSE /\ stack = <<>>
    /\ copied_files = <<>> /\ skipped_files = <<>>
    /\ stdout = <<>> /\ stderr = <<>> /\ exit_code = -1
    /\ fs0 = <<>> /\ pre_exists = {} /\ outcome = NoOutcome
    /\ runs = 0 /\ edits = 0 /\ prev = NoPrev

\* the working directories the model starts hprun in
Cwds == {<<"/", "home", "user", "proj">>, <<"/", "srv">>}
Kinds == {"none", "file", "dir"}

\* os.path.join(root, name)
Join(root, name) == root \o <<name>>
\* os.path.abspath: a relative path is taken below the working directory
AbsPath(root, p) == IF p # <<>> /\ p[1] = "/" THEN p ELSE root \o p

\* the names tried, in this order
ConfigDirs == <<"config", "configs">>

\* (fault) anything that exists is taken for a configuration directory
ExistsOnly(kind) == kind # "none"
\* os.path.exists(config_path) and os.path.isdir(config_path)
IsDirectory(kind) == kind # "none" /\ kind = "dir"

\* the loop of _get_default_config_path from the i-th name on
RECURSIVE FirstConfigDir(_, _, _)
FirstConfigDir(root, entries, i) ==
    IF i > Len(ConfigDirs) THEN None
    ELSE IF IsDirectory(entries[ConfigDirs[i]])
    THEN [is_none |-> FALSE, path |-> AbsPath(root, Join(root, ConfigDirs[i]))]
    ELSE FirstConfigDir(root, entries, i + 1)

\* _get_default_config_path()
GetDefaultConfigPath(root, entries) == FirstConfigDir(root, entries, 1)

Event(step, ok) == [step |-> step, ok |-> ok]

\* the statements of the entry function, in order
Body == <<"resolve", "instantiate", "run">>
\* (fault) a failing statement is swallowed and the body goes on
AfterStepSwallowing(i, ok) ==
    IF i < Len(Body) THEN Body[i + 1] ELSE "exited"
\* the entry function has no handler: a statement that raises ends the
\* process, otherwise control goes to the next statement
AfterStep(i, ok) ==
    IF ~ok THEN "exited"
    ELSE IF i < Len(Body) THEN Body[i + 1] ELSE "exited"
\* the framework reports the exception and exits non-zero
ExitStatus(i, ok) ==
    IF ~ok THEN 1 ELSE IF i < Len(Body) THEN -1 ELSE 0

\* the module is loaded: the decorator arguments are evaluated, which
\* calls _get_default_config_path()
Discover ==
    /\ rpc = "import"
    /\ config_path' = GetDefaultConfigPath(
           cwd, [config |-> cwd_config, configs |-> cwd_configs])
    /\ trace' = Append(trace, Event("discover", TRUE))
    /\ rpc' = "main"
    /\ UNCHANGED <<cwd, cwd_config, cwd_configs, cfg, program, rexit>>
    /\ UNCHANGED hpinit_vars

\* main() is called: the framework parses the command line
HydraParse ==
    /\ rpc = "main"
    /\ trace' = Append(trace, Event("parse_args", TRUE))
    /\ rpc' = "compose"
    /\ UNCHANGED <<cwd, cwd_config, cwd_configs, config_path, cfg, program,
                   rexit>>
    /\ UNCHANGED hpinit_vars

\* the framework composes the configuration and calls the entry function,
\* or fails to load the configuration and exits
HydraCompose ==
    /\ rpc = "compose"
    /\ IF cfg.loads
       THEN rpc' = Body[1] /\ rexit' = rexit
       ELSE rpc' = "exited" /\ rexit' = 1
    /\ UNCHANGED <<cwd, cwd_config, cwd_configs, config_path, cfg, program,
                   trace>>
    /\ UNCHANGED hpinit_vars

\* OmegaConf.resolve(cfg)
Resolve ==
    /\ rpc = "resolve"
    /\ trace' = Append(trace, Event("resolve", cfg.resolves))
    /\ rpc' = AfterStep(1, cfg.resolves)
    /\ rexit' = ExitStatus(1, cfg.resolves)
    /\ UNCHANGED <<cwd, cwd_config, cwd_configs, config_path, cfg, program>>
    /\ UNCHANGED hpinit_vars

\* program = instantiate(cfg)
Instantiate ==
    /\ rpc = "instantiate"
    /\ trace' = Append(trace, Event("instantiate", cfg.instantiates))
    /\ program' = IF cfg.instantiates THEN "object" ELSE program
    /\ rpc' = AfterStep(2, cfg.instantiates)
    /\ rexit' = ExitStatus(2, cfg.instantiates)
    /\ UNCHANGED <<cwd, cwd_config, cwd_configs, config_path, cfg>>
    /\ UNCHANGED hpinit_vars

\* program.run()
Run ==
    /\ rpc = "run"
    /\ trace' = Append(trace, Event("run", cfg.runs))
    /\ rpc' = AfterStep(3, cfg.runs)
    /\ rexit' = ExitStatus(3, cfg.runs)
    /\ UNCHANGED <<cwd, cwd_config, cwd_configs, config_path, cfg, program>>
    /\ UNCHANGED hpinit_vars

InitHprun ==
    /\ rpc = "import"
    /\ cwd \in Cwds
    /\ cwd_config \in Kinds
    /\ cwd_configs \in Kinds
    /\ cfg \in [loads : BOOLEAN, resolves : BOOLEAN, instantiates : BOOLEAN,
                runs : BOOLEAN]
    /\ config_path = None
    /\ program = "none"
    /\ trace = <<>>
    /\ rexit = -1
    /\ HpinitIdle

NextHprun ==
    \/ Discover
    \/ HydraParse
    \/ HydraCompose
    \/ Resolve
    \/ Instantiate
    \/ Run

SpecHprun == InitHprun /\ [][NextHprun]_vars

\* ------------------------------------------------------------- hprun: properties
\* C9: the discovery returns <cwd>/config whenever ./config is a directory,
\* also when ./configs is one too; <cwd>/configs only when ./config is not a
\* directory and ./configs is; and None exactly when neither is a directory.
\* A ./config that is a regular file does not count.
C9_DiscoveryPrefersConfig ==
    rpc # "import" =>
        /\ cwd_config = "dir" =>
            config_path = [is_none |-> FALSE, path |-> cwd \o <<"config">>]
        /\ (cwd_config # "dir" /\ cwd_configs = "dir") =>
            config_path = [is_none |-> FALSE, path |-> cwd \o <<"configs">>]
        /\ config_path.path = cwd \o <<"configs">> =>
            (cwd_config # "dir" /\ cwd_configs = "dir")
        /\ config_path = None <=> (cwd_config # "dir" /\ cwd_configs # "dir")

C9_Witness ==
    /\ rpc # "import"
    /\ cwd_config = "dir" /\ cwd_configs = "dir"
    /\ config_path = [is_none |-> FALSE, path |-> <<"/", "srv", "config">>]

\* the steps of one process, in their order
Order == <<"discover", "parse_args", "resolve", "instantiate", "run">>

\* C10: the steps of an hprun process happen in the fixed order discovery,
\* command-line parsing, resolution, instantiation, run, each at most once
\* and run exactly once in a process that succeeds; a failed resolution or
\* instantiation ends the process with a non-zero status and run is not
\* invoked after it.
C10_FixedOrder ==
    /\ Len(trace) <= Len(Order)
    /\ \A i \in 1..Len(trace) : trace[i].step = Order[i]
    /\ \A i \in 1..(Len(trace) - 1) : trace[i].ok
    /\ rpc # "import" => trace[1].step = "discover"
    /\ rexit = 0 =>
        /\ Len(trace) = Len(Order)
        /\ \A i \in 1..Len(trace) : trace[i].ok
    /\ \A i \in 1..Len(trace) :
        (trace[i].step \in {"resolve", "instantiate"} /\ ~trace[i].ok) =>
            /\ rpc = "exited" /\ rexit = 1
            /\ \A j \in 1..Len(trace) : trace[j].step # "run"

C10_Witness ==
    /\ rpc = "exited" /\ rexit = 0
    /\ [i \in 1..Len(trace) |-> trace[i].step] = Order
    /\ program = "object"

====
